---- MODULE Spec2Model ----
(***************************************************************************)
(* The Swellyo chat backend (backend/main.py): an in-memory session store  *)
(* `chats` and the three handlers new_chat, continue_chat and              *)
(* get_chat_history.  The handlers are `async def` bodies without any      *)
(* await (the OpenAI client used is the synchronous one), so the event     *)
(* loop runs one handler body at a time: the model keeps one request in    *)
(* flight and walks it through the handler's statements.                   *)
(***************************************************************************)
EXTENDS Integers, Sequences, FiniteSets, TLC

(***************************************************************************)
(* Bounds of the model.                                                    *)
(***************************************************************************)
\* number of requests (of any kind) a behaviour handles
MaxRequests == 3

\* values str(uuid.uuid4()) is drawn from
ChatIds == {"id1", "id2"}

(***************************************************************************)
(* Python / JSON values.  Every value is a record tagged by its type in t. *)
(***************************************************************************)
None == [t |-> "none"]
Bool(b) == [t |-> "bool", b |-> b]
List(l) == [t |-> "list", l |-> l]
Dict(d) == [t |-> "dict", d |-> d]
\* a str holding prose: text that is not a JSON document
Str(s) == [t |-> "str", s |-> s]
\* a str holding the JSON document that denotes the value v
JsonText(v) == [t |-> "str", json |-> v]

\* request.message values
Messages == {Str("hi"), Str("San Diego")}

meta_prompt == Str("meta_prompt")

Turn(role, content) == [role |-> role, content |-> content]

(***************************************************************************)
(* What response.choices[0].message.content can be: the provider is an     *)
(* opaque capability, so every shape of content is a possible reply.       *)
(***************************************************************************)
DataKeys == {"destinations", "travel_style", "surf_pref", "extras"}

FullData ==
    Dict([destinations |-> Str("San Diego, Sri Lanka, Maldives"),
          travel_style |-> Str("budget, solo"),
          surf_pref |-> Str("barrels, low crowd"),
          extras |-> Str("climbing, nature")])

\* {"return_message": ..., "is_finished": false, "data": null}
QuestionReply ==
    JsonText(Dict([return_message |-> Str("Which surf zones, bro?"),
                   is_finished |-> Bool(FALSE),
                   data |-> None]))

\* {"return_message": ..., "is_finished": true, "data": {...four keys...}}
FinishedReply ==
    JsonText(Dict([return_message |-> Str("Epic, that paints the full picture"),
                   is_finished |-> Bool(TRUE),
                   data |-> FullData]))

\* the final example of the meta-prompt, with its misspelt key "is_finihsed"
MisspeltReply ==
    JsonText(Dict([return_message |-> Str("Epic, that paints the full picture"),
                   is_finihsed |-> Bool(TRUE),
                   data |-> FullData]))

\* {"is_finished": true}: an object without return_message and data
BareFinishedReply == JsonText(Dict([is_finished |-> Bool(TRUE)]))

\* prose, e.g. the reply of the unconstrained continue call
ProseReply == Str("Nice, dude! Tell me more.")

\* valid JSON that is not an object: [] and null
ArrayReply == JsonText(List(<<>>))
NullReply == JsonText(None)

ModelReplies ==
    {None, ProseReply, ArrayReply, NullReply,
     QuestionReply, FinishedReply, MisspeltReply, BareFinishedReply}

(***************************************************************************)
(* State.                                                                  *)
(*   chats     the session store: chat_id -> list of turns                 *)
(*   req       the request being handled (or the last one handled):        *)
(*             its handler, arguments, position and locals                 *)
(*   resp      the HTTP response of the last finished request              *)
(*   sent      the messages argument of the last model call                *)
(*   ncalls    how many model calls were made                              *)
(*   nreq      how many requests arrived                                   *)
(*   drawn     the values uuid4 produced so far                            *)
(*   returned  the chat_ids new_chat returned to a caller                  *)
(*   before    chats and ncalls as they were when req arrived              *)
(*   stats     per chat_id: how many new_chat / continue_chat requests it  *)
(*             took (turns), how many of their model calls raised and how  *)
(*             many of them were answered with status 200 (ok)             *)
(*   mock      the mock service (main_mock.py) fed the same requests: its  *)
(*             store, its last response, the number of requests it has     *)
(*             handled and which of its chat_ids answers which chat_id     *)
(***************************************************************************)
VARIABLES chats, req, resp, sent, ncalls, nreq, drawn, returned, before,
          stats, mock

vars ==
    <<chats, req, resp, sent, ncalls, nreq, drawn, returned, before,
      stats, mock>>

\* the value of a local that is not bound yet
Unbound == [t |-> "unbound"]

NoRequest ==
    [op |-> "none", pc |-> "done", chat_id |-> "", message |-> Unbound,
     assistant_message |-> Unbound]

NoResponse == [status |-> 0, body |-> [detail |-> ""]]

Response(status, body) == [status |-> status, body |-> body]

\* raise HTTPException(status_code=..., detail=...)
HTTPException(status, detail) == Response(status, [detail |-> detail])

Init ==
    /\ chats = <<>>
    /\ req = NoRequest
    /\ resp = NoResponse
    /\ sent = <<>>
    /\ ncalls = 0
    /\ nreq = 0
    /\ drawn = {}
    /\ returned = {}
    /\ before = [chats |-> <<>>, ncalls |-> 0]
    /\ stats = <<>>
    /\ mock = [chats |-> <<>>, resp |-> NoResponse, handled |-> 0,
               pair |-> <<>>]

\* an event loop that starts a handler while another one waits for the model
Idle_during_round_trip == req.pc \in {"done", "create"} /\ nreq < MaxRequests

\* the event loop is free to start the next handler body
Idle == req.pc = "done" /\ nreq < MaxRequests

\* str(uuid.uuid4()): 122 random bits; a value is taken not to repeat
uuid4 == ChatIds \ drawn

\* chats[chat_id] = turns
StoreSet(store, chat_id, turns) ==
    [id \in DOMAIN store \cup {chat_id} |->
        IF id = chat_id THEN turns ELSE store[id]]

\* chats[chat_id] = [turn] in place of the append
StoreOverwrite(store, chat_id, turn) ==
    [store EXCEPT ![chat_id] = <<turn>>]

\* the append reaching every session's list, as if the lists were shared
StoreAppendAll(store, chat_id, turn) ==
    [id \in DOMAIN store |-> Append(store[id], turn)]

\* chats[chat_id].append(turn)
StoreAppend(store, chat_id, turn) ==
    [store EXCEPT ![chat_id] = Append(@, turn)]

(***************************************************************************)
(* Exceptions and the handlers' except clauses.                            *)
(***************************************************************************)
\* an exception that is not an HTTPException (TypeError, APIError, ...)
Raised(type) == [exc |-> type, status |-> 0, detail |-> ""]

\* HTTPException(status_code=status, detail=detail)
HTTPError(status, detail) ==
    [exc |-> "HTTPException", status |-> status, detail |-> detail]

NotRaised == [exc |-> "", status |-> 0, detail |-> ""]

\* new_chat: `except Exception as e: raise HTTPException(500, ...)`
new_chat_except(e) ==
    HTTPException(500, "Error processing chat")

\* continue_chat without its `except HTTPException: raise` clause
continue_chat_except_all(e) ==
    HTTPException(500, "Error processing chat")

\* continue_chat: `except HTTPException: raise`, then
\* `except Exception as e: raise HTTPException(500, ...)`
continue_chat_except(e) ==
    IF e.exc = "HTTPException"
    THEN HTTPException(e.status, e.detail)
    ELSE HTTPException(500, "Error processing chat")

(***************************************************************************)
(* Parsing the reply.                                                      *)
(***************************************************************************)
\* json.loads(s): TypeError unless s is a str, JSONDecodeError unless the
\* text is a JSON document, else the value the document denotes
json_loads(s) ==
    IF s.t # "str" THEN [raised |-> Raised("TypeError"), value |-> None]
    ELSE IF "json" \notin DOMAIN s
    THEN [raised |-> Raised("JSONDecodeError"), value |-> None]
    ELSE [raised |-> NotRaised, value |-> s.json]

\* d.get(key, default) of a dict
dict_get(d, key, default) ==
    IF key \in DOMAIN d.d THEN d.d[key] ELSE default

\* the inner try without its `except json.JSONDecodeError` clause
parse_reply_without_fallback(assistant_message) ==
    LET parsed_response == json_loads(assistant_message)
    IN  IF parsed_response.raised.exc # ""
        THEN [raised |-> parsed_response.raised,
              return_message |-> None, is_finished |-> None, data |-> None]
        ELSE IF parsed_response.value.t # "dict"
        THEN [raised |-> Raised("AttributeError"),
              return_message |-> None, is_finished |-> None, data |-> None]
        ELSE [raised |-> NotRaised,
              return_message |->
                  dict_get(parsed_response.value, "return_message",
                           assistant_message),
              is_finished |->
                  dict_get(parsed_response.value, "is_finished", Bool(FALSE)),
              data |-> dict_get(parsed_response.value, "data", None)]

\* the inner try returning "data": None on the parsed branch too
parse_reply_without_data(assistant_message) ==
    LET parsed_response == json_loads(assistant_message)
    IN  IF parsed_response.raised.exc = "JSONDecodeError"
        THEN [raised |-> NotRaised,
              return_message |-> assistant_message,
              is_finished |-> Bool(FALSE),
              data |-> None]
        ELSE IF parsed_response.raised.exc # ""
        THEN [raised |-> parsed_response.raised,
              return_message |-> None, is_finished |-> None, data |-> None]
        ELSE IF parsed_response.value.t # "dict"
        THEN [raised |-> Raised("AttributeError"),
              return_message |-> None, is_finished |-> None, data |-> None]
        ELSE [raised |-> NotRaised,
              return_message |->
                  dict_get(parsed_response.value, "return_message",
                           assistant_message),
              is_finished |->
                  dict_get(parsed_response.value, "is_finished", Bool(FALSE)),
              data |-> None]

\* the inner try reading the three keys only when all three are present
parse_reply_all_or_nothing(assistant_message) ==
    LET parsed_response == json_loads(assistant_message)
        complete == {"return_message", "is_finished", "data"}
                        \subseteq DOMAIN parsed_response.value.d
    IN  IF parsed_response.raised.exc = "JSONDecodeError"
        THEN [raised |-> NotRaised,
              return_message |-> assistant_message,
              is_finished |-> Bool(FALSE),
              data |-> None]
        ELSE IF parsed_response.raised.exc # ""
        THEN [raised |-> parsed_response.raised,
              return_message |-> None, is_finished |-> None, data |-> None]
        ELSE IF parsed_response.value.t # "dict"
        THEN [raised |-> Raised("AttributeError"),
              return_message |-> None, is_finished |-> None, data |-> None]
        ELSE [raised |-> NotRaised,
              return_message |->
                  IF complete THEN parsed_response.value.d.return_message
                  ELSE assistant_message,
              is_finished |->
                  IF complete THEN parsed_response.value.d.is_finished
                  ELSE Bool(FALSE),
              data |-> IF complete THEN parsed_response.value.d.data ELSE None]

\* the inner try/except of both handlers: the three fields of the reply, or
\* the exception that leaves the block
parse_reply(assistant_message) ==
    LET parsed_response == json_loads(assistant_message)
    IN  IF parsed_response.raised.exc = "JSONDecodeError"
        THEN [raised |-> NotRaised,
              return_message |-> assistant_message,
              is_finished |-> Bool(FALSE),
              data |-> None]
        ELSE IF parsed_response.raised.exc # ""
        THEN [raised |-> parsed_response.raised,
              return_message |-> None, is_finished |-> None, data |-> None]
        ELSE IF parsed_response.value.t # "dict"
        THEN [raised |-> Raised("AttributeError"),
              return_message |-> None, is_finished |-> None, data |-> None]
        ELSE [raised |-> NotRaised,
              return_message |->
                  dict_get(parsed_response.value, "return_message",
                           assistant_message),
              is_finished |->
                  dict_get(parsed_response.value, "is_finished", Bool(FALSE)),
              data |-> dict_get(parsed_response.value, "data", None)]

\* what new_chat answers once the assistant turn is stored
new_chat_return(chat_id, assistant_message) ==
    LET r == parse_reply(assistant_message)
    IN  IF r.raised.exc # ""
        THEN new_chat_except(r.raised)
        ELSE Response(200, [chat_id |-> chat_id,
                            return_message |-> r.return_message,
                            is_finished |-> r.is_finished,
                            data |-> r.data])

\* what continue_chat answers once the assistant turn is stored
continue_chat_return(assistant_message) ==
    LET r == parse_reply(assistant_message)
    IN  IF r.raised.exc # ""
        THEN continue_chat_except(r.raised)
        ELSE Response(200, [return_message |-> r.return_message,
                            is_finished |-> r.is_finished,
                            data |-> r.data])

\* get_chat_history that hides the system turn
get_chat_history_response_hiding_system(store, chat_id) ==
    IF chat_id \notin DOMAIN store
    THEN HTTPException(404, "Chat not found")
    ELSE Response(200, [chat_id |-> chat_id,
                        messages |-> SelectSeq(store[chat_id],
                                        LAMBDA turn : turn.role # "system")])

\* the whole of get_chat_history, on the store as it is
get_chat_history_response(store, chat_id) ==
    IF chat_id \notin DOMAIN store
    THEN HTTPException(404, "Chat not found")
    ELSE Response(200, [chat_id |-> chat_id, messages |-> store[chat_id]])

(***************************************************************************)
(* The handlers, statement by statement.                                   *)
(***************************************************************************)
\* a seed without the system instruction
initial_turns_without_system(message) ==
    <<Turn("user", message)>>

\* the list new_chat stores under the fresh chat_id
initial_turns(message) ==
    <<Turn("system", meta_prompt), Turn("user", message)>>

Arrives(op, chat_id, message, pc) ==
    /\ req' = [op |-> op, pc |-> pc, chat_id |-> chat_id,
               message |-> message, assistant_message |-> Unbound]
    /\ before' = [chats |-> chats, ncalls |-> ncalls]
    /\ nreq' = nreq + 1

\* POST /new_chat, up to the model call: draw the chat_id, seed the session
new_chat(message) ==
    /\ Idle
    /\ \E chat_id \in uuid4 :
          /\ drawn' = drawn \cup {chat_id}
          /\ chats' = StoreSet(chats, chat_id, initial_turns(message))
          /\ Arrives("new_chat", chat_id, message, "create")
          /\ stats' = StoreSet(stats, chat_id, [turns |-> 1, raised |-> 0, ok |-> 0])
    /\ resp' = NoResponse
    /\ UNCHANGED <<sent, ncalls, returned, mock>>

\* the user turn stored under the role tag "system"
user_turn_as_system(message) ==
    Turn("system", message)

\* {"role": "user", "content": request.message}
user_turn(message) ==
    Turn("user", message)

\* continue_chat refusing a session whose last reply had is_finished = true
continue_chat_rejecting_finished(chat_id, message) ==
    /\ Idle
    /\ IF chat_id \notin DOMAIN chats
       THEN /\ Arrives("continue_chat", chat_id, message, "done")
            /\ resp' = continue_chat_except(HTTPError(404, "Chat not found"))
            /\ UNCHANGED <<chats, stats>>
       ELSE IF LET last == chats[chat_id][Len(chats[chat_id])]
               IN  /\ last.role = "assistant"
                   /\ parse_reply(last.content).is_finished = Bool(TRUE)
       THEN /\ Arrives("continue_chat", chat_id, message, "done")
            /\ resp' = continue_chat_except(HTTPError(409, "Chat finished"))
            /\ UNCHANGED <<chats, stats>>
       ELSE /\ Arrives("continue_chat", chat_id, message, "create")
            /\ resp' = NoResponse
            /\ chats' = StoreAppend(chats, chat_id, user_turn(message))
            /\ stats' = [stats EXCEPT ![chat_id].turns = @ + 1]
    /\ UNCHANGED <<sent, ncalls, drawn, returned, mock>>

\* POST /chats/{chat_id}/continue, up to the model call: 404 for an unknown
\* chat_id, else append the user turn
continue_chat(chat_id, message) ==
    /\ Idle
    /\ IF chat_id \notin DOMAIN chats
       THEN /\ Arrives("continue_chat", chat_id, message, "done")
            /\ resp' = continue_chat_except(HTTPError(404, "Chat not found"))
            /\ UNCHANGED <<chats, stats>>
       ELSE /\ Arrives("continue_chat", chat_id, message, "create")
            /\ resp' = NoResponse
            /\ chats' = StoreAppend(chats, chat_id, user_turn(message))
            /\ stats' = [stats EXCEPT ![chat_id].turns = @ + 1]
    /\ UNCHANGED <<sent, ncalls, drawn, returned, mock>>

\* the except clauses of the handler that is running
handler_except(e) ==
    IF req.op = "new_chat" THEN new_chat_except(e) ELSE continue_chat_except(e)

\* a messages argument that holds the newest turn only
messages_argument_last_only(store, chat_id) ==
    <<store[chat_id][Len(store[chat_id])]>>

\* messages=chats[chat_id]
messages_argument(store, chat_id) ==
    store[chat_id]

\* openai_client.chat.completions.create(messages=chats[chat_id], ...)
\* returns, and content is read into assistant_message
create_returns(content) ==
    /\ req.pc = "create"
    /\ sent' = messages_argument(chats, req.chat_id)
    /\ ncalls' = ncalls + 1
    /\ req' = [req EXCEPT !.assistant_message = content, !.pc = "append"]
    /\ UNCHANGED <<chats, resp, nreq, drawn, returned, before, stats, mock>>

\* the failure path storing the error text as the assistant turn
create_raises_storing_error ==
    /\ req.pc = "create"
    /\ sent' = messages_argument(chats, req.chat_id)
    /\ ncalls' = ncalls + 1
    /\ req' = [req EXCEPT !.pc = "done"]
    /\ resp' = handler_except(Raised("APIError"))
    /\ chats' = StoreAppend(chats, req.chat_id,
                            Turn("assistant", Str("Error processing chat")))
    /\ stats' = [stats EXCEPT ![req.chat_id].raised = @ + 1]
    /\ UNCHANGED <<nreq, drawn, returned, before, mock>>

\* the failure path undoing what the request stored
create_raises_rolling_back ==
    /\ req.pc = "create"
    /\ sent' = messages_argument(chats, req.chat_id)
    /\ ncalls' = ncalls + 1
    /\ req' = [req EXCEPT !.pc = "done"]
    /\ resp' = handler_except(Raised("APIError"))
    /\ chats' = before.chats
    /\ stats' = [stats EXCEPT ![req.chat_id].raised = @ + 1]
    /\ UNCHANGED <<nreq, drawn, returned, before, mock>>

\* the model call (or reading choices[0].message.content) raises
create_raises ==
    /\ req.pc = "create"
    /\ sent' = messages_argument(chats, req.chat_id)
    /\ ncalls' = ncalls + 1
    /\ req' = [req EXCEPT !.pc = "done"]
    /\ resp' = handler_except(Raised("APIError"))
    /\ stats' = [stats EXCEPT ![req.chat_id].raised = @ + 1]
    /\ UNCHANGED <<chats, nreq, drawn, returned, before, mock>>

\* the turn that stores the parsed return_message instead of the raw reply
assistant_turn_parsed(assistant_message) ==
    Turn("assistant", parse_reply(assistant_message).return_message)

\* {"role": "assistant", "content": assistant_message}
assistant_turn(assistant_message) ==
    Turn("assistant", assistant_message)

\* chats[chat_id].append({"role": "assistant", "content": assistant_message})
append_assistant ==
    /\ req.pc = "append"
    /\ chats' = StoreAppend(chats, req.chat_id,
                            assistant_turn(req.assistant_message))
    /\ req' = [req EXCEPT !.pc = "parse"]
    /\ UNCHANGED <<resp, sent, ncalls, nreq, drawn, returned, before,
                   stats, mock>>

\* the inner try/except and the return (or the handler's except clause)
parse_and_return ==
    /\ req.pc = "parse"
    /\ resp' = IF req.op = "new_chat"
               THEN new_chat_return(req.chat_id, req.assistant_message)
               ELSE continue_chat_return(req.assistant_message)
    /\ returned' = IF req.op = "new_chat" /\ resp'.status = 200
                   THEN returned \cup {req.chat_id}
                   ELSE returned
    /\ stats' = IF resp'.status = 200
                 THEN [stats EXCEPT ![req.chat_id].ok = @ + 1]
                 ELSE stats
    /\ req' = [req EXCEPT !.pc = "done"]
    /\ UNCHANGED <<chats, sent, ncalls, nreq, drawn, before, mock>>

\* GET /chats/{chat_id}: the whole handler
get_chat_history(chat_id) ==
    /\ Idle
    /\ Arrives("get_chat_history", chat_id, Unbound, "done")
    /\ resp' = get_chat_history_response(chats, chat_id)
    /\ UNCHANGED <<chats, sent, ncalls, drawn, returned, stats, mock>>

Next ==
    \/ \E message \in Messages : new_chat(message)
    \/ \E chat_id \in ChatIds, message \in Messages :
          continue_chat(chat_id, message)
    \/ \E content \in ModelReplies : create_returns(content)
    \/ create_raises
    \/ append_assistant
    \/ parse_and_return
    \/ \E chat_id \in ChatIds : get_chat_history(chat_id)

Spec == Init /\ [][Next]_vars

(***************************************************************************)
(* Helpers of the properties.                                              *)
(***************************************************************************)
\* the request in req has been answered
Done(op) == req.op = op /\ req.pc = "done"

\* the model call of the request in req returned (content was read)
ModelReplied == req.assistant_message # Unbound

IsPrefix(s, t) == Len(s) <= Len(t) /\ SubSeq(t, 1, Len(s)) = s

(***************************************************************************)
(* C1: when new_chat(m) succeeds with chat_id c on model reply r,          *)
(* get_chat_history(c) issued right after it returns exactly the three     *)
(* turns (system, meta-prompt), (user, m), (assistant, r), r being the raw *)
(* reply text.                                                             *)
(***************************************************************************)
C1_HistoryAfterNewChat ==
    (Done("new_chat") /\ resp.status = 200) =>
        get_chat_history_response(chats, resp.body.chat_id) =
            Response(200,
                [chat_id |-> req.chat_id,
                 messages |-> <<Turn("system", meta_prompt),
                                Turn("user", req.message),
                                Turn("assistant", req.assistant_message)>>])

\* new_chat succeeded on a reply whose parsed return_message differs from
\* the raw text
C1_Witness ==
    /\ Done("new_chat")
    /\ resp.status = 200
    /\ req.assistant_message = FinishedReply
    /\ resp.body.return_message # req.assistant_message
    /\ Len(chats[req.chat_id]) = 3

(***************************************************************************)
(* C2: a successful continue_chat(chat_id, m) on a session with history H  *)
(* and model reply r leaves the history H, (user, m), (assistant, r): the  *)
(* raw reply is stored whether or not it parses, it is stored before the   *)
(* response exists, and no system turn is added.                           *)
(***************************************************************************)
C2_ContinueAppendsUserThenRawReply ==
    /\ (Done("continue_chat") /\ resp.status = 200) =>
          chats[req.chat_id] =
              before.chats[req.chat_id] \o
                  <<Turn("user", req.message),
                    Turn("assistant", req.assistant_message)>>
    /\ (req.op = "continue_chat" /\ req.pc = "parse") =>
          /\ resp = NoResponse
          /\ chats[req.chat_id] =
                before.chats[req.chat_id] \o
                    <<Turn("user", req.message),
                      Turn("assistant", req.assistant_message)>>

\* continue_chat succeeded on a JSON reply, on a session that new_chat and
\* one earlier continue_chat built
C2_Witness ==
    /\ Done("continue_chat")
    /\ resp.status = 200
    /\ req.assistant_message = QuestionReply
    /\ Len(before.chats[req.chat_id]) = 5
    /\ Len(chats[req.chat_id]) = 7

(***************************************************************************)
(* C3: continue_chat with a chat_id that is not in the store answers 404,  *)
(* never 500; it calls no model, creates no session and leaves the store   *)
(* as it was.                                                              *)
(***************************************************************************)
C3_ContinueUnknownIs404 ==
    (req.op = "continue_chat" /\ req.chat_id \notin DOMAIN before.chats) =>
        /\ req.pc = "done"
        /\ resp.status = 404
        /\ chats = before.chats
        /\ ncalls = before.ncalls

\* an unknown chat_id was continued while another session existed
C3_Witness ==
    /\ Done("continue_chat")
    /\ req.chat_id \notin DOMAIN before.chats
    /\ DOMAIN chats # {}
    /\ resp.status = 404

\* new_chat or continue_chat has answered after its model call returned
Answered ==
    /\ req.op \in {"new_chat", "continue_chat"}
    /\ req.pc = "done"
    /\ ModelReplied

\* s is a str
IsText(s) == s.t = "str"

\* s is a str holding a JSON document
IsJsonText(s) == IsText(s) /\ "json" \in DOMAIN s

\* s is a str holding a JSON object
IsJsonObjectText(s) == IsJsonText(s) /\ s.json.t = "dict"

(***************************************************************************)
(* C4: in new_chat and in continue_chat, when the model's reply text is    *)
(* not valid JSON the request succeeds with return_message = the raw text, *)
(* is_finished = false and data = null.                                    *)
(***************************************************************************)
C4_NotJsonFallsBackToText ==
    (Answered /\ IsText(req.assistant_message)
              /\ ~IsJsonText(req.assistant_message)) =>
        /\ resp.status = 200
        /\ resp.body.return_message = req.assistant_message
        /\ resp.body.is_finished = Bool(FALSE)
        /\ resp.body.data = None

\* new_chat answered a prose reply
C4_Witness ==
    /\ Done("new_chat")
    /\ req.assistant_message = ProseReply
    /\ resp.status = 200
    /\ resp.body.return_message = ProseReply

(***************************************************************************)
(* C5: whatever the model call returns without raising (prose, JSON that   *)
(* is not an object, a JSON object, no content), new_chat and              *)
(* continue_chat on an existing session answer 200: a reply that does not  *)
(* parse as an object never reaches the caller as an error.                *)
(***************************************************************************)
C5_EveryReplySucceeds ==
    Answered => resp.status = 200

\* s is a JSON object with is_finished = true, a return_message and a data
\* object with exactly the four keys
IsFullFinishedObject(s) ==
    /\ IsJsonObjectText(s)
    /\ {"return_message", "is_finished", "data"} \subseteq DOMAIN s.json.d
    /\ s.json.d["is_finished"] = Bool(TRUE)
    /\ s.json.d["data"].t = "dict"
    /\ DOMAIN s.json.d["data"].d = DataKeys

(***************************************************************************)
(* C6: when the reply text is a JSON object with is_finished = true, a     *)
(* return_message and a data object with the four keys, the structured     *)
(* reply carries is_finished = true, that return_message and that data     *)
(* object, key for key and value for value.                                *)
(***************************************************************************)
C6_FinishedReplyEchoesData ==
    (Answered /\ IsFullFinishedObject(req.assistant_message)) =>
        /\ resp.status = 200
        /\ resp.body.is_finished = Bool(TRUE)
        /\ resp.body.return_message =
              req.assistant_message.json.d["return_message"]
        /\ resp.body.data = req.assistant_message.json.d["data"]
        /\ \A k \in DataKeys :
              resp.body.data.d[k] = req.assistant_message.json.d["data"].d[k]

\* continue_chat answered the finished reply
C6_Witness ==
    /\ Done("continue_chat")
    /\ req.assistant_message = FinishedReply
    /\ resp.status = 200
    /\ resp.body.data = FullData

(***************************************************************************)
(* C7: every structured reply of new_chat and continue_chat has data null  *)
(* when is_finished is false, and data non-null only when is_finished is   *)
(* true.                                                                   *)
(***************************************************************************)
C7_DataOnlyWhenFinished ==
    (Answered /\ resp.status = 200) =>
        /\ resp.body.is_finished = Bool(FALSE) => resp.body.data = None
        /\ resp.body.data # None => resp.body.is_finished = Bool(TRUE)

\* a step keeps every session and only extends its history
StoreGrows ==
    \A id \in DOMAIN chats :
        id \in DOMAIN chats' /\ IsPrefix(chats[id], chats'[id])

\* a request naming a chat_id that new_chat returned is not answered 404
ReturnedIsFound ==
    (req.op \in {"continue_chat", "get_chat_history"}
        /\ req.pc = "done" /\ req.chat_id \in returned) => resp.status # 404

(***************************************************************************)
(* C9: the store only grows: a chat_id in the store stays in it and every  *)
(* session's history in an earlier state is a prefix of its history in     *)
(* every later state; so continue_chat and get_chat_history on a chat_id   *)
(* that new_chat returned never answer 404.                                *)
(***************************************************************************)
C9_StoreOnlyGrows ==
    [][StoreGrows]_vars /\ []ReturnedIsFound

\* a returned session was continued after a request to another session
C9_Witness ==
    /\ Done("continue_chat")
    /\ req.chat_id \in returned
    /\ resp.status = 200
    /\ Cardinality(DOMAIN chats) = 2
    /\ nreq = 3

(***************************************************************************)
(* C10: get_chat_history(chat_id) answers the session's whole turn list,   *)
(* in stored order and unmodified, when chat_id is in the store and 404    *)
(* otherwise; either way the store is unchanged and no model call is made. *)
(***************************************************************************)
C10_GetHistoryVerbatim ==
    Done("get_chat_history") =>
        /\ req.chat_id \in DOMAIN before.chats =>
              /\ resp.status = 200
              /\ resp.body.chat_id = req.chat_id
              /\ resp.body.messages = before.chats[req.chat_id]
        /\ req.chat_id \notin DOMAIN before.chats => resp.status = 404
        /\ chats = before.chats
        /\ ncalls = before.ncalls

\* the history of a session with an answered continue_chat was read
C10_Witness ==
    /\ Done("get_chat_history")
    /\ resp.status = 200
    /\ Len(resp.body.messages) = 5
    /\ resp.body.messages[1].role = "system"

\* req is a new_chat, or a continue_chat on a chat_id the store held
IsTurn ==
    \/ req.op = "new_chat"
    \/ req.op = "continue_chat" /\ req.chat_id \in DOMAIN before.chats

\* the history of req's session once req's user turn is stored
WithUserTurn ==
    IF req.op = "new_chat"
    THEN <<Turn("system", meta_prompt), Turn("user", req.message)>>
    ELSE before.chats[req.chat_id] \o <<Turn("user", req.message)>>

\* req was a turn whose model call raised
ModelRaised == IsTurn /\ req.pc = "done" /\ ~ModelReplied

(***************************************************************************)
(* C11: when the model call raises in new_chat or in continue_chat on an   *)
(* existing session the request ends 500, no assistant turn is stored for  *)
(* it and the model is called once (no retry); the 404 of continue_chat    *)
(* is passed through and never turned into a 500.                          *)
(***************************************************************************)
C11_ModelFailureIs500 ==
    /\ ModelRaised =>
          /\ resp.status = 500
          /\ chats[req.chat_id] = WithUserTurn
          /\ ncalls = before.ncalls + 1
    /\ (req.op = "continue_chat" /\ ~IsTurn) =>
          /\ resp.status = 404
          /\ resp.body.detail = "Chat not found"

\* the model call of a continue_chat on an answered session raised
C11_Witness ==
    /\ ModelRaised
    /\ req.op = "continue_chat"
    /\ Len(before.chats[req.chat_id]) = 3
    /\ resp.status = 500

(***************************************************************************)
(* C12: on every turn of new_chat and continue_chat the user turn is       *)
(* stored, then the model is called, then the assistant turn is stored,    *)
(* then the reply is returned; the messages handed to the model are the    *)
(* session's whole history at the call, from the system instruction to     *)
(* the user message of this request.                                       *)
(***************************************************************************)
C12_TurnStepsInOrder ==
    IsTurn =>
        /\ req.pc = "create" =>
              /\ chats[req.chat_id] = WithUserTurn
              /\ ncalls = before.ncalls
              /\ resp = NoResponse
        /\ req.pc = "append" =>
              /\ chats[req.chat_id] = WithUserTurn
              /\ ncalls = before.ncalls + 1
              /\ resp = NoResponse
        /\ req.pc = "parse" =>
              /\ chats[req.chat_id] =
                    WithUserTurn \o <<Turn("assistant", req.assistant_message)>>
              /\ ncalls = before.ncalls + 1
              /\ resp = NoResponse
        /\ (req.pc = "done" /\ ModelReplied) =>
              /\ chats[req.chat_id] =
                    WithUserTurn \o <<Turn("assistant", req.assistant_message)>>
              /\ ncalls = before.ncalls + 1
              /\ resp # NoResponse
        /\ ncalls = before.ncalls + 1 =>
              /\ sent = WithUserTurn
              /\ sent[1] = Turn("system", meta_prompt)
              /\ sent[Len(sent)] = Turn("user", req.message)

\* the assistant turn of a continue_chat is stored, its reply not yet
\* returned, and the model saw the four turns before it
C12_Witness ==
    /\ req.op = "continue_chat"
    /\ req.pc = "parse"
    /\ Len(sent) = 4
    /\ Len(chats[req.chat_id]) = 5
    /\ sent[4] = Turn("user", req.message)

\* the reply text c is a JSON object carrying is_finished = true
SaysFinished(c) ==
    /\ IsJsonObjectText(c)
    /\ "is_finished" \in DOMAIN c.json.d
    /\ c.json.d["is_finished"] = Bool(TRUE)

\* the last turn of history h is an assistant reply that said is_finished
PreviousReplyFinished(h) ==
    /\ Len(h) > 0
    /\ h[Len(h)].role = "assistant"
    /\ SaysFinished(h[Len(h)].content)

(***************************************************************************)
(* C13: the service keeps no finished state: a continue_chat on a session  *)
(* whose previous structured reply had is_finished = true is not rejected  *)
(* and runs like any other continue (user turn stored, model called with   *)
(* the whole history, assistant turn stored, reply returned), and the new  *)
(* reply may carry is_finished = false again.                              *)
(***************************************************************************)
C13_NoFinishedState ==
    (req.op = "continue_chat" /\ req.chat_id \in DOMAIN before.chats
        /\ PreviousReplyFinished(before.chats[req.chat_id])) =>
        /\ IsPrefix(WithUserTurn, chats[req.chat_id])
        /\ req.pc = "done" => ncalls = before.ncalls + 1
        /\ ncalls = before.ncalls + 1 => sent = WithUserTurn
        /\ (req.pc = "done" /\ ModelReplied) =>
              chats[req.chat_id] =
                  WithUserTurn \o <<Turn("assistant", req.assistant_message)>>
        /\ (req.pc = "done" /\ IsJsonObjectText(req.assistant_message)) =>
              /\ resp.status = 200
              /\ resp.body.is_finished =
                    IF "is_finished" \in DOMAIN req.assistant_message.json.d
                    THEN req.assistant_message.json.d["is_finished"]
                    ELSE Bool(FALSE)
        /\ (req.pc = "done" /\ ~ModelReplied) => resp.status = 500

\* a finished session was continued and answered is_finished = false
C13_Witness ==
    /\ Done("continue_chat")
    /\ req.chat_id \in DOMAIN before.chats
    /\ PreviousReplyFinished(before.chats[req.chat_id])
    /\ req.assistant_message = QuestionReply
    /\ resp.status = 200
    /\ resp.body.is_finished = Bool(FALSE)

\* positions i, i+1 of history h both carry the role
Adjacent(h, role) ==
    \E i \in 1..(Len(h) - 1) : h[i].role = role /\ h[i + 1].role = role

\* no request arrives while a handler body is running
NoArrivalDuringHandler == req.pc # "done" => nreq' = nreq

\* no history holds two assistant turns in a row, and two user turns in a
\* row only where a model call raised
NoInterleavedAppends ==
    \A id \in DOMAIN chats :
        /\ ~Adjacent(chats[id], "assistant")
        /\ stats[id].raised = 0 => ~Adjacent(chats[id], "user")

(***************************************************************************)
(* C14, as claimed: the model round-trip of a continue_chat is a           *)
(* suspension point: while the request waits for the model, another        *)
(* continue_chat for the same chat_id can run (and so both user turns can  *)
(* be stored before either assistant turn).                                *)
(***************************************************************************)
C14_RoundTripSuspends ==
    (req.op = "continue_chat" /\ req.pc = "create" /\ nreq < MaxRequests) =>
        ENABLED (\E message \in Messages :
                    continue_chat(req.chat_id, message))

(***************************************************************************)
(* C14, amended: two continue_chat requests for the same chat_id do not    *)
(* interleave: no request arrives while a handler body runs (the model     *)
(* call is synchronous and the body has no await), no history holds two    *)
(* adjacent assistant turns, and two adjacent user turns only after a      *)
(* model call that raised.                                                 *)
(***************************************************************************)
C14_HandlersSerialized ==
    [][NoArrivalDuringHandler]_vars /\ []NoInterleavedAppends

\* a second continue_chat on the same session was answered after the first
C14_Witness ==
    /\ Done("continue_chat")
    /\ req.chat_id \in DOMAIN chats
    /\ stats[req.chat_id].turns = 3
    /\ stats[req.chat_id].raised = 0
    /\ Len(chats[req.chat_id]) = 7
    /\ chats[req.chat_id][4].role = "user"
    /\ chats[req.chat_id][5].role = "assistant"
    /\ chats[req.chat_id][6].role = "user"
    /\ chats[req.chat_id][7].role = "assistant"

(***************************************************************************)
(* C15: in every reachable state, also after model failures, every         *)
(* session's history has the meta-prompt system turn at position 0 and no  *)
(* system turn anywhere else, and every turn's role is system, user or     *)
(* assistant.                                                              *)
(***************************************************************************)
C15_SystemTurnFirstOnly ==
    \A id \in DOMAIN chats :
        /\ Len(chats[id]) >= 1
        /\ chats[id][1] = Turn("system", meta_prompt)
        /\ \A i \in 2..Len(chats[id]) : chats[id][i].role # "system"
        /\ \A i \in 1..Len(chats[id]) :
              chats[id][i].role \in {"system", "user", "assistant"}

\* a session took a raised model call and a later answered turn
C15_Witness ==
    \E id \in DOMAIN chats :
        /\ stats[id].raised = 1
        /\ stats[id].turns = 3
        /\ Len(chats[id]) = 6
        /\ req.pc = "done"

\* h is the system turn followed by user, assistant, user, assistant, ...
Alternates(h) ==
    /\ Len(h) >= 1
    /\ h[1].role = "system"
    /\ \A i \in 2..Len(h) :
          h[i].role = IF i % 2 = 0 THEN "user" ELSE "assistant"

\* the same reading with a turn counted once its model call has returned,
\* whatever the handler then answers
AlternatesPerModelReply ==
    req.pc = "done" =>
        \A id \in DOMAIN chats :
            stats[id].raised = 0 =>
                /\ Alternates(chats[id])
                /\ chats[id][Len(chats[id])].role = "assistant"
                /\ Len(chats[id]) = 1 + 2 * stats[id].turns

(***************************************************************************)
(* C16: with requests handled one at a time and no model call failing, a   *)
(* session's history between requests is the system turn followed by       *)
(* strictly alternating user and assistant turns, ends with an assistant   *)
(* turn, and has length 1 + 2k after k successful turns, i.e. k turns      *)
(* answered with status 200 (one new_chat and k - 1 continue_chat calls).  *)
(***************************************************************************)
C16_AlternatesBetweenRequests ==
    req.pc = "done" =>
        \A id \in DOMAIN chats :
            stats[id].raised = 0 =>
                /\ Alternates(chats[id])
                /\ chats[id][Len(chats[id])].role = "assistant"
                /\ Len(chats[id]) = 1 + 2 * stats[id].ok

(***************************************************************************)
(* C17: a failed model call is not rolled back.  After a raise in          *)
(* continue_chat the user turn of that request stays and the history ends  *)
(* with a user turn, so the next continue_chat whose call goes through     *)
(* sends the model two consecutive user turns.  After a raise in new_chat  *)
(* the session seeded with the system and user turns stays in the store,   *)
(* under a chat_id that was never returned to a caller.                    *)
(***************************************************************************)
C17_FailureNotRolledBack ==
    /\ (ModelRaised /\ req.op = "continue_chat") =>
          /\ chats[req.chat_id] =
                before.chats[req.chat_id] \o <<Turn("user", req.message)>>
          /\ chats[req.chat_id][Len(chats[req.chat_id])].role = "user"
    /\ (ModelRaised /\ req.op = "new_chat") =>
          /\ req.chat_id \in DOMAIN chats
          /\ chats[req.chat_id] =
                <<Turn("system", meta_prompt), Turn("user", req.message)>>
          /\ req.chat_id \notin returned
    /\ (req.op = "continue_chat" /\ IsTurn
            /\ ncalls = before.ncalls + 1
            /\ before.chats[req.chat_id][Len(before.chats[req.chat_id])].role
                  = "user") =>
          /\ sent[Len(sent) - 1] =
                before.chats[req.chat_id][Len(before.chats[req.chat_id])]
          /\ sent[Len(sent) - 1].role = "user"
          /\ sent[Len(sent)] = Turn("user", req.message)

\* after a continue_chat whose call raised, the next continue_chat was
\* answered and its model call saw two user turns in a row
C17_Witness ==
    /\ Done("continue_chat")
    /\ resp.status = 200
    /\ Len(sent) = 5
    /\ sent[4].role = "user"
    /\ sent[5].role = "user"
    /\ stats[req.chat_id].raised = 1

\* the sessions other than the one the request in progress addresses
OtherSessions == DOMAIN before.chats \ {req.chat_id}

(***************************************************************************)
(* C18: sessions are isolated.  From the arrival of a new_chat,            *)
(* continue_chat or get_chat_history request for one chat_id to its        *)
(* answer, the history of every other chat_id is what it was at the        *)
(* arrival, no session other than the request's own appears, and the       *)
(* message list handed to the model is the request's own session: its      *)
(* history at the arrival followed by the request's user message.          *)
(***************************************************************************)
C18_SessionsIsolated ==
    /\ \A id \in OtherSessions :
          id \in DOMAIN chats /\ chats[id] = before.chats[id]
    /\ DOMAIN chats \subseteq DOMAIN before.chats \cup {req.chat_id}
    /\ req.op = "get_chat_history" => chats = before.chats
    /\ (IsTurn /\ ncalls = before.ncalls + 1) =>
          sent = WithUserTurn

\* a continue_chat on one session was answered while another session with
\* a different first user message stood by untouched
C18_Witness ==
    /\ Done("continue_chat")
    /\ resp.status = 200
    /\ Len(sent) = 4
    /\ \E id \in OtherSessions :
          /\ Len(chats[id]) = 3
          /\ chats[id][2] # sent[2]
          /\ chats[id][2] # sent[4]
          /\ chats[id] = before.chats[id]

(***************************************************************************)
(* The reply parsing on its own: the handlers run on replies that are JSON *)
(* objects holding any subset of the three keys the handlers read.         *)
(***************************************************************************)
MaxParseRequests == 2

ReplyKeys == {"return_message", "is_finished", "data"}

\* the values a reply may give a key, null included
ReplyValues(key) ==
    CASE key = "return_message" -> {Str("Which surf zones, bro?"), None}
      [] key = "is_finished" -> {Bool(TRUE), Bool(FALSE)}
      [] key = "data" -> {FullData, None}

\* every JSON object text over a subset of the three keys
ObjectReplies ==
    UNION { { JsonText(Dict(d)) :
                d \in { f \in [K -> UNION {ReplyValues(k) : k \in ReplyKeys}] :
                          \A k \in K : f[k] \in ReplyValues(k) } } :
            K \in SUBSET ReplyKeys }

NextParse ==
    \/ \E message \in Messages :
          nreq < MaxParseRequests /\ new_chat(message)
    \/ \E chat_id \in ChatIds, message \in Messages :
          nreq < MaxParseRequests /\ continue_chat(chat_id, message)
    \/ \E content \in ObjectReplies : create_returns(content)
    \/ append_assistant
    \/ parse_and_return

SpecParse == Init /\ [][NextParse]_vars

\* the request in req is a turn answered on a reply that is a JSON object
AnsweredOnObject ==
    /\ IsTurn
    /\ req.pc = "done"
    /\ ModelReplied
    /\ IsJsonObjectText(req.assistant_message)

(***************************************************************************)
(* C19: when the model's reply text is a JSON object lacking some of the   *)
(* keys, each missing key is defaulted on its own: a missing               *)
(* return_message yields the whole raw reply text, a missing is_finished   *)
(* yields false, a missing data yields null; a key that is present is      *)
(* passed through with its value unchanged.                                *)
(***************************************************************************)
C19_MissingKeysDefaulted ==
    AnsweredOnObject =>
        LET object == req.assistant_message.json.d
        IN  /\ resp.status = 200
            /\ resp.body.return_message =
                  IF "return_message" \in DOMAIN object
                  THEN object.return_message
                  ELSE req.assistant_message
            /\ resp.body.is_finished =
                  IF "is_finished" \in DOMAIN object
                  THEN object.is_finished
                  ELSE Bool(FALSE)
            /\ resp.body.data =
                  IF "data" \in DOMAIN object THEN object.data ELSE None

\* a continue_chat answered on {"data": {...}} alone: the data passed
\* through, the other two fields defaulted
C19_Witness ==
    /\ AnsweredOnObject
    /\ req.op = "continue_chat"
    /\ DOMAIN req.assistant_message.json.d = {"data"}
    /\ resp.body.data = FullData
    /\ resp.body.is_finished = Bool(FALSE)
    /\ resp.body.return_message = JsonText(Dict([data |-> FullData]))

(***************************************************************************)
(* The mock service (main_mock.py): the same three routes on a store of    *)
(* its own, without system turn and without model call.  A client sends    *)
(* each request to both services: the request held in req is the one the   *)
(* mock handles next, with the chat_id the mock itself returned for the    *)
(* session (mock.pair) in place of the main service's.                     *)
(***************************************************************************)
MockIds == {"mock1", "mock2"}

\* request.message values that reach every branch of the mock's dispatch
MockMessages ==
    {Str("hi"), Str("Hello, how are you"), Str("weather?"), Str("thanks")}

\* the keywords k for which `k in request.message.lower()` holds
lower_keywords(message) ==
    CASE message = Str("Hello, how are you") -> {"hello", "how are you"}
      [] message = Str("weather?") -> {"weather"}
      [] message = Str("thanks") -> {"thank"}
      [] OTHER -> {}

\* an f-string around the message
Echo(text, message) == [t |-> "str", s |-> text, arg |-> message.s]

\* mock_response of new_chat
mock_response_new(message) ==
    IF "hello" \in lower_keywords(message)
    THEN Str("Hello! I'm a mock AI assistant. How can I help you today?")
    ELSE IF "how are you" \in lower_keywords(message)
    THEN Str("I'm doing well, thank you for asking!")
    ELSE IF "weather" \in lower_keywords(message)
    THEN Str("I'm a mock AI, so I can't check real weather data.")
    ELSE Echo("I received your message", message)

\* mock_response of continue_chat
mock_response_continue(message) ==
    IF "hello" \in lower_keywords(message)
    THEN Str("Hello again! I'm still here to help you.")
    ELSE IF "how are you" \in lower_keywords(message)
    THEN Str("I'm still doing well! Thanks for asking again.")
    ELSE IF "weather" \in lower_keywords(message)
    THEN Str("I'm still a mock AI, so I can't check real weather data.")
    ELSE IF "thank" \in lower_keywords(message)
    THEN Str("You're very welcome! I'm happy to help.")
    ELSE Echo("I received your follow-up message", message)

\* the mock seeding its sessions the way the main service does
mock_initial_turns_with_system(message) ==
    <<Turn("system", meta_prompt), Turn("user", message)>>

\* chats[chat_id] = [{"role": "user", "content": request.message}]
mock_initial_turns(message) ==
    <<Turn("user", message)>>

\* the chat_id the client sends the mock for the chat_id it sends the main
\* service: the one the mock returned for that session, else the same
\* unknown text
mock_chat_id(chat_id) ==
    IF chat_id \in DOMAIN mock.pair THEN mock.pair[chat_id] ELSE chat_id

\* the request in req is waiting for the mock
MockPending(op) == req.op = op /\ mock.handled < nreq

\* POST /new_chat of the mock: the whole handler
mock_new_chat ==
    /\ MockPending("new_chat")
    /\ \E chat_id \in MockIds \ DOMAIN mock.chats :
          LET mock_response == mock_response_new(req.message)
              seeded == StoreSet(mock.chats, chat_id,
                                 mock_initial_turns(req.message))
          IN  mock' = [chats |-> StoreAppend(seeded, chat_id,
                                     Turn("assistant", mock_response)),
                       resp |-> Response(200,
                                    [chat_id |-> chat_id,
                                     return_message |-> mock_response]),
                       handled |-> mock.handled + 1,
                       pair |-> StoreSet(mock.pair, req.chat_id, chat_id)]
    /\ UNCHANGED <<chats, req, resp, sent, ncalls, nreq, drawn, returned,
                   before, stats>>

\* POST /chats/{chat_id}/continue of the mock: the whole handler
mock_continue_chat ==
    /\ MockPending("continue_chat")
    /\ LET chat_id == mock_chat_id(req.chat_id)
           mock_response == mock_response_continue(req.message)
       IN  IF chat_id \notin DOMAIN mock.chats
           THEN mock' = [mock EXCEPT
                            !.resp = HTTPException(404, "Chat not found"),
                            !.handled = @ + 1]
           ELSE mock' = [mock EXCEPT
                            !.chats = StoreAppend(
                                StoreAppend(@, chat_id,
                                            Turn("user", req.message)),
                                chat_id, Turn("assistant", mock_response)),
                            !.resp = Response(200,
                                [return_message |-> mock_response]),
                            !.handled = @ + 1]
    /\ UNCHANGED <<chats, req, resp, sent, ncalls, nreq, drawn, returned,
                   before, stats>>

\* GET /chats/{chat_id} of the mock: the whole handler
mock_get_chat_history ==
    /\ MockPending("get_chat_history")
    /\ mock' = [mock EXCEPT
                   !.resp = get_chat_history_response(
                                mock.chats, mock_chat_id(req.chat_id)),
                   !.handled = @ + 1]
    /\ UNCHANGED <<chats, req, resp, sent, ncalls, nreq, drawn, returned,
                   before, stats>>

\* the client sends its next request once both services answered the last
BothAnswered == req.pc = "done" /\ mock.handled = nreq

\* the main service with a model that never fails and replies with prose,
\* and the mock, fed the same requests
NextMock ==
    \/ \E message \in MockMessages : BothAnswered /\ new_chat(message)
    \/ \E chat_id \in ChatIds, message \in MockMessages :
          BothAnswered /\ continue_chat(chat_id, message)
    \/ \E chat_id \in ChatIds : BothAnswered /\ get_chat_history(chat_id)
    \/ create_returns(ProseReply)
    \/ append_assistant
    \/ parse_and_return
    \/ mock_new_chat
    \/ mock_continue_chat
    \/ mock_get_chat_history

SpecMock == Init /\ [][NextMock]_vars

\* success or NotFound
Outcome(response) == response.status

\* histories g and h have the same length, roles and user contents
SameProtocol(g, h) ==
    /\ Len(g) = Len(h)
    /\ \A i \in 1..Len(g) :
          /\ g[i].role = h[i].role
          /\ g[i].role = "user" => g[i].content = h[i].content

(***************************************************************************)
(* C20: the mock service follows the session-store protocol of the main    *)
(* service run with a model that never fails and always replies with       *)
(* non-JSON text: for the same sequence of new_chat, continue_chat and     *)
(* get_chat_history requests both answer with the same success / NotFound  *)
(* outcome, and after every request each main session's history without    *)
(* its leading system turn has the length, the roles and the user          *)
(* contents of the corresponding mock session's history.                   *)
(***************************************************************************)
C20_MockFollowsProtocol ==
    (BothAnswered /\ nreq > 0) =>
        /\ Outcome(mock.resp) = Outcome(resp)
        /\ DOMAIN mock.pair = DOMAIN chats
        /\ \A id \in DOMAIN chats :
              /\ mock.pair[id] \in DOMAIN mock.chats
              /\ chats[id][1].role = "system"
              /\ SameProtocol(Tail(chats[id]), mock.chats[mock.pair[id]])
        /\ \A id1, id2 \in DOMAIN chats :
              mock.pair[id1] = mock.pair[id2] => id1 = id2

\* both services answered a continue_chat on a session of two turns with
\* success, after both answered NotFound or success alike before
C20_Witness ==
    /\ BothAnswered
    /\ Done("continue_chat")
    /\ req.message = Str("thanks")
    /\ resp.status = 200
    /\ mock.resp.status = 200
    /\ Len(chats[req.chat_id]) = 5
    /\ Len(mock.chats[mock.pair[req.chat_id]]) = 4
    /\ Cardinality(DOMAIN chats) = 2

====
